---- MODULE Spec2Model ----
(***************************************************************************)
(* Campus device loans: the DeviceLoan domain model (validation, factory,  *)
(* query helpers), the Cosmos document-store adapters, the singleton       *)
(* repository accessor and the GET /products handler.                      *)
(*                                                                         *)
(* JavaScript values are tagged records (field t).  A string is a sequence *)
(* of one-character strings so that trim() is computed; strings that the   *)
(* code only compares for equality (status, document ids) stay atomic.     *)
(* A Date holds the time value t = day * MS_PER_DAY + ms split in two      *)
(* fields, 0 <= ms < MS_PER_DAY, because time values of calendar years     *)
(* are wider than the integers of the model checker.                       *)
(***************************************************************************)
EXTENDS Integers, Sequences, FiniteSets, TLC

VARIABLES
  call,                \* the operation invoked last, with its arguments
  outcome,             \* its completion: a returned value or a thrown error
  loans,               \* the loaded, in-memory sequence of DeviceLoan
  container,           \* the loan container of the store: its documents
  stored,              \* the loans as they were saved, in document order
  devices,             \* the device container of the store: its documents
  env,                 \* process.env
  wiring,              \* which of the two AppServices sources is linked
  deviceRepoInstance,  \* the singleton cache of AppServices
  requests             \* the GET /products invocations, in arrival order

domainVars == <<loans>>
storeVars == <<container, stored, devices>>
appVars == <<env, wiring, deviceRepoInstance, requests>>
vars == <<call, outcome, loans, container, stored, devices, env, wiring,
          deviceRepoInstance, requests>>

-----------------------------------------------------------------------------
(* JavaScript values and completions *)

Undefined == [t |-> "undefined"]
Null == [t |-> "null"]
Str(s) == [t |-> "string", v |-> s]
Num(w, h) == [t |-> "number", nan |-> FALSE, w |-> w, h |-> h]  \* w + h/2
NaN == [t |-> "number", nan |-> TRUE, w |-> 0, h |-> 0]
Date(day, ms) == [t |-> "date", valid |-> TRUE, day |-> day, ms |-> ms]
InvalidDate == [t |-> "date", valid |-> FALSE, day |-> 0, ms |-> 0]

Return(v) == [kind |-> "return", value |-> v]
Throw(e) == [kind |-> "throw", error |-> e]
TypeError == [name |-> "TypeError"]

IsWhiteSpace(c) == c \in {" ", "\t", "\n"}

RECURSIVE TrimStart(_)
TrimStart(s) ==
  IF s # <<>> /\ IsWhiteSpace(Head(s)) THEN TrimStart(Tail(s)) ELSE s

RECURSIVE TrimEnd(_)
TrimEnd(s) ==
  IF s # <<>> /\ IsWhiteSpace(s[Len(s)])
  THEN TrimEnd(SubSeq(s, 1, Len(s) - 1))
  ELSE s

\* String.prototype.trim
Trim(s) == TrimEnd(TrimStart(s))

Digits == <<"0", "1", "2", "3", "4", "5", "6", "7", "8", "9">>
IsDigit(c) == \E i \in 1..10 : Digits[i] = c
DigitValue(c) == (CHOOSE i \in 1..10 : Digits[i] = c) - 1

RECURSIVE DigitsValue(_)
DigitsValue(s) ==
  IF s = <<>> THEN 0
  ELSE 10 * DigitsValue(SubSeq(s, 1, Len(s) - 1)) + DigitValue(s[Len(s)])

\* ToNumber, as the relational operators apply it: undefined is NaN, null is
\* 0, a string is trimmed and read as a decimal numeral (the empty string is 0)
ToNumber(x) ==
  CASE x.t = "number" -> x
    [] x.t = "null" -> Num(0, 0)
    [] x.t = "string" ->
         IF \A i \in 1..Len(Trim(x.v)) : IsDigit(Trim(x.v)[i])
         THEN Num(DigitsValue(Trim(x.v)), 0)
         ELSE NaN
    [] OTHER -> NaN

\* x >= k and x <= k for a number x and an integer k; false for NaN
NumGE(x, k) == ~x.nan /\ x.w >= k
NumLE(x, k) == ~x.nan /\ (x.w < k \/ (x.w = k /\ x.h = 0))

\* a < b on the time values of two Dates; false when either is NaN
TimeLess(a, b) ==
  /\ a.valid /\ b.valid
  /\ a.day < b.day \/ (a.day = b.day /\ a.ms < b.ms)

-----------------------------------------------------------------------------
(* Domain validation rules *)

MIN_LOAN_AMOUNT == 1
MAX_LOAN_AMOUNT == 10000
STATUS_VALUES == <<"active", "returned", "overdue">>

MsgDeviceId == "Device ID must not be empty"
MsgBorrowerId == "Borrower ID must not be empty"
MsgLoanAmount == "Loan amount must be between 1 and 10000"
MsgDates == "Due date must be after start date and both must be valid dates"
MsgId == "ID is required and cannot be empty"
MsgCreatedAt == "Created date must be a valid Date"
MsgStatus == "Status must be one of: active, returned, overdue"

\* deviceId.trim().length > 0; calling trim on a non-string throws
isValidDeviceId(deviceId) ==
  IF deviceId.t = "string"
  THEN Return(Len(Trim(deviceId.v)) > 0)
  ELSE Throw(TypeError)

isValidBorrowerId(borrowerId) ==
  IF borrowerId.t = "string"
  THEN Return(Len(Trim(borrowerId.v)) > 0)
  ELSE Throw(TypeError)

isValidLoanAmount_Exclusive(amount) ==
  /\ NumGE(ToNumber(amount), MIN_LOAN_AMOUNT + 1)
  /\ NumLE(ToNumber(amount), MAX_LOAN_AMOUNT)

\* amount >= MIN && amount <= MAX; a non-number operand is converted first
isValidLoanAmount(amount) ==
  /\ NumGE(ToNumber(amount), MIN_LOAN_AMOUNT)
  /\ NumLE(ToNumber(amount), MAX_LOAN_AMOUNT)

isValidDates_OrEqual(startDate, dueDate) ==
  /\ startDate.t = "date"
  /\ dueDate.t = "date"
  /\ startDate.valid
  /\ dueDate.valid
  /\ ~TimeLess(dueDate, startDate)

isValidDates(startDate, dueDate) ==
  /\ startDate.t = "date"
  /\ dueDate.t = "date"
  /\ startDate.valid
  /\ dueDate.valid
  /\ TimeLess(startDate, dueDate)

isValidStatus_AnyString(status) == status.t = "string" /\ status.v # ""

isValidStatus(status) ==
  \E i \in 1..Len(STATUS_VALUES) : Str(STATUS_VALUES[i]) = status

Success == [success |-> TRUE, errors |-> <<>>]
Failure(errors) == [success |-> FALSE, errors |-> errors]

validateDeviceLoanContent_FirstOnly(content) ==
  LET d == isValidDeviceId(content.deviceId)
      b == isValidBorrowerId(content.borrowerId)
  IN  IF d.kind = "throw" THEN d
      ELSE IF b.kind = "throw" THEN b
      ELSE IF ~d.value THEN Return(Failure(<<MsgDeviceId>>))
      ELSE IF ~b.value THEN Return(Failure(<<MsgBorrowerId>>))
      ELSE IF ~isValidLoanAmount(content.loanAmount)
        THEN Return(Failure(<<MsgLoanAmount>>))
      ELSE IF ~isValidDates(content.startDate, content.dueDate)
        THEN Return(Failure(<<MsgDates>>))
      ELSE Return(Success)

validateDeviceLoanContent(content) ==
  LET d == isValidDeviceId(content.deviceId)
      b == isValidBorrowerId(content.borrowerId)
  IN  IF d.kind = "throw" THEN d
      ELSE IF b.kind = "throw" THEN b
      ELSE
        LET errors ==
              (IF ~d.value THEN <<MsgDeviceId>> ELSE <<>>)
              \o (IF ~b.value THEN <<MsgBorrowerId>> ELSE <<>>)
              \o (IF ~isValidLoanAmount(content.loanAmount)
                  THEN <<MsgLoanAmount>> ELSE <<>>)
              \o (IF ~isValidDates(content.startDate, content.dueDate)
                  THEN <<MsgDates>> ELSE <<>>)
        IN  Return(IF Len(errors) = 0 THEN Success ELSE Failure(errors))

isFailedValidation(result) == result.success = FALSE

InvalidDeviceLoanError(errors) ==
  [name |-> "InvalidDeviceLoanError", errors |-> errors]

\* !id: undefined, null, the empty string, 0 and NaN are falsy
Falsy(x) ==
  \/ x.t \in {"undefined", "null"}
  \/ (x.t = "string" /\ x.v = <<>>)
  \/ (x.t = "number" /\ (x.nan \/ (x.w = 0 /\ x.h = 0)))

createDeviceLoan(p) ==
  LET idTrim ==
        IF Falsy(p.id) THEN Return(TRUE)
        ELSE IF p.id.t = "string" THEN Return(Len(Trim(p.id.v)) = 0)
        ELSE Throw(TypeError)
      idErrors ==
        IF idTrim.kind = "return" /\ idTrim.value THEN <<MsgId>> ELSE <<>>
      createdAtErrors ==
        IF ~(p.createdAt.t = "date") \/ ~p.createdAt.valid
        THEN <<MsgCreatedAt>> ELSE <<>>
      statusErrors ==
        IF ~isValidStatus(p.status) THEN <<MsgStatus>> ELSE <<>>
      contentValidation ==
        validateDeviceLoanContent(
          [deviceId |-> p.deviceId, borrowerId |-> p.borrowerId,
           loanAmount |-> p.loanAmount, startDate |-> p.startDate,
           dueDate |-> p.dueDate])
  IN  IF idTrim.kind = "throw" THEN idTrim
      ELSE IF contentValidation.kind = "throw" THEN contentValidation
      ELSE
        LET errors ==
              idErrors \o createdAtErrors \o statusErrors
              \o (IF isFailedValidation(contentValidation.value)
                  THEN contentValidation.value.errors ELSE <<>>)
        IN  IF Len(errors) > 0
            THEN Throw(InvalidDeviceLoanError(errors))
            ELSE Return(
                   [id |-> p.id, deviceId |-> p.deviceId,
                    borrowerId |-> p.borrowerId,
                    loanAmount |-> p.loanAmount,
                    startDate |-> p.startDate, dueDate |-> p.dueDate,
                    status |-> p.status, createdAt |-> p.createdAt])

-----------------------------------------------------------------------------
(* Domain query helpers *)

MS_PER_DAY == 1000 * 60 * 60 * 24

\* Date.prototype.getTime of a valid Date
getTime(d) == d.day * MS_PER_DAY + d.ms

\* Math.ceil(n / d) for integers n and d > 0
Ceil(n, d) == -((-n) \div d)

calculateLoanDurationDays_Floor(loan) ==
  IF loan.dueDate.valid /\ loan.startDate.valid
  THEN Num((getTime(loan.dueDate) - getTime(loan.startDate)) \div MS_PER_DAY, 0)
  ELSE NaN

calculateLoanDurationDays(loan) ==
  IF loan.dueDate.valid /\ loan.startDate.valid
  THEN Num(Ceil(getTime(loan.dueDate) - getTime(loan.startDate), MS_PER_DAY), 0)
  ELSE NaN

getActiveLoans(ls) ==
  SelectSeq(ls, LAMBDA loan : loan.status = Str("active"))

\* currentDate > loan.dueDate compares the two time values
getOverdueLoans(ls, currentDate) ==
  SelectSeq(ls, LAMBDA loan :
    loan.status = Str("active") /\ TimeLess(loan.dueDate, currentDate))

\* the comparator of sortByDueDate and sortByStartDate on the date field
Comparator(a, b, field, order) ==
  LET comparison == getTime(a[field]) - getTime(b[field])
  IN  IF order = "asc" THEN comparison ELSE -comparison

\* Array.prototype.sort is stable: an element moves in front of an earlier
\* one only when the comparator puts the earlier one after it (result > 0)
RECURSIVE InsertSorted(_, _, _, _)
InsertSorted(sorted, x, field, order) ==
  IF sorted = <<>> THEN <<x>>
  ELSE
    LET y == sorted[Len(sorted)]
    IN  IF Comparator(y, x, field, order) > 0
        THEN InsertSorted(SubSeq(sorted, 1, Len(sorted) - 1), x, field, order)
               \o <<y>>
        ELSE sorted \o <<x>>

RECURSIVE ArraySort(_, _, _)
ArraySort(a, field, order) ==
  IF a = <<>> THEN <<>>
  ELSE InsertSorted(ArraySort(SubSeq(a, 1, Len(a) - 1), field, order),
                    a[Len(a)], field, order)

Reverse(a) == [i \in 1..Len(a) |-> a[Len(a) + 1 - i]]

sortByDueDate_ReverseOfAsc(ls, order) ==
  IF order = "asc" THEN ArraySort(ls, "dueDate", "asc")
  ELSE Reverse(ArraySort(ls, "dueDate", "asc"))

sortByDueDate(ls, order) == ArraySort(ls, "dueDate", order)

sortByStartDate(ls, order) == ArraySort(ls, "startDate", order)

-----------------------------------------------------------------------------
(* Dates as ISO-8601 strings *)

\* the calendar date of a day number (days since 1970-01-01, proleptic
\* Gregorian calendar), as YearFromTime, MonthFromTime and DateFromTime
CivilFromDays(days) ==
  LET z == days + 719468
      era == z \div 146097
      doe == z - era * 146097
      yoe == (doe - doe \div 1460 + doe \div 36524 - doe \div 146096) \div 365
      doy == doe - (365 * yoe + yoe \div 4 - yoe \div 100)
      mp == (5 * doy + 2) \div 153
      d == doy - (153 * mp + 2) \div 5 + 1
      m == IF mp < 10 THEN mp + 3 ELSE mp - 9
  IN  [year |-> yoe + era * 400 + (IF m <= 2 THEN 1 ELSE 0),
       month |-> m, day |-> d]

\* the day number of a calendar date, as MakeDay
DaysFromCivil(year, month, day) ==
  LET y == IF month <= 2 THEN year - 1 ELSE year
      era == y \div 400
      yoe == y - era * 400
      doy == (153 * (IF month > 2 THEN month - 3 ELSE month + 9) + 2) \div 5
               + day - 1
      doe == yoe * 365 + yoe \div 4 - yoe \div 100 + doy
  IN  era * 146097 + doe - 719468

\* the decimal digits of n >= 0, zero-padded to width
RECURSIVE Pad(_, _)
Pad(n, width) ==
  IF width = 0 THEN <<>>
  ELSE Pad(n \div 10, width - 1) \o <<Digits[(n % 10) + 1]>>

RangeError == [name |-> "RangeError"]

\* Date.prototype.toISOString: YYYY-MM-DDTHH:mm:ss.sssZ, the year with four
\* digits from 0 to 9999 and with a sign and six digits outside; throws on
\* an invalid Date
toISOString(date) ==
  IF ~date.valid THEN Throw(RangeError)
  ELSE
    LET c == CivilFromDays(date.day)
        year == IF c.year >= 0 /\ c.year <= 9999 THEN Pad(c.year, 4)
                ELSE IF c.year < 0 THEN <<"-">> \o Pad(-c.year, 6)
                ELSE <<"+">> \o Pad(c.year, 6)
    IN  Return(Str(
          year \o <<"-">> \o Pad(c.month, 2) \o <<"-">> \o Pad(c.day, 2)
          \o <<"T">> \o Pad(date.ms \div 3600000, 2)
          \o <<":">> \o Pad((date.ms \div 60000) % 60, 2)
          \o <<":">> \o Pad((date.ms \div 1000) % 60, 2)
          \o <<".">> \o Pad(date.ms % 1000, 3) \o <<"Z">>))

AllDigits(s) == \A i \in 1..Len(s) : IsDigit(s[i])

\* new Date(string) on the ISO format; any other string gives an invalid Date
ParseDate(s) ==
  LET signed == s # <<>> /\ Head(s) \in {"+", "-"}
      o == IF signed THEN 7 ELSE 4
      part(from, to) == SubSeq(s, o + from, o + to)
      wellFormed ==
        /\ Len(s) = o + 20
        /\ AllDigits(SubSeq(s, IF signed THEN 2 ELSE 1, o))
        /\ part(1, 1) = <<"-">> /\ AllDigits(part(2, 3))
        /\ part(4, 4) = <<"-">> /\ AllDigits(part(5, 6))
        /\ part(7, 7) = <<"T">> /\ AllDigits(part(8, 9))
        /\ part(10, 10) = <<":">> /\ AllDigits(part(11, 12))
        /\ part(13, 13) = <<":">> /\ AllDigits(part(14, 15))
        /\ part(16, 16) = <<".">> /\ AllDigits(part(17, 19))
        /\ part(20, 20) = <<"Z">>
      magnitude == DigitsValue(SubSeq(s, IF signed THEN 2 ELSE 1, o))
      year == IF signed /\ Head(s) = "-" THEN -magnitude ELSE magnitude
      month == DigitsValue(part(2, 3))
      day == DigitsValue(part(5, 6))
      hour == DigitsValue(part(8, 9))
      minute == DigitsValue(part(11, 12))
      second == DigitsValue(part(14, 15))
      milli == DigitsValue(part(17, 19))
  IN  IF /\ wellFormed
         /\ month \in 1..12 /\ day \in 1..31
         /\ hour \in 0..23 /\ minute \in 0..59 /\ second \in 0..59
         /\ CivilFromDays(DaysFromCivil(year, month, day)).day = day
         /\ ~(signed /\ magnitude = 0 /\ Head(s) = "-")
      THEN Date(DaysFromCivil(year, month, day),
                hour * 3600000 + minute * 60000 + second * 1000 + milli)
      ELSE InvalidDate

\* the characters of ISO date strings in the order of their code units
CodeUnitOrder ==
  <<"+", "-", ".", "0", "1", "2", "3", "4", "5", "6", "7", "8", "9", ":",
    "T", "Z">>
CodeUnit(c) == CHOOSE i \in 1..Len(CodeUnitOrder) : CodeUnitOrder[i] = c

\* a < b on strings, as the store's query compares them: by code unit, the
\* shorter string first when it is a prefix of the longer
RECURSIVE StringLess(_, _)
StringLess(a, b) ==
  IF b = <<>> THEN FALSE
  ELSE IF a = <<>> THEN TRUE
  ELSE IF Head(a) = Head(b) THEN StringLess(Tail(a), Tail(b))
  ELSE CodeUnit(Head(a)) < CodeUnit(Head(b))

-----------------------------------------------------------------------------
(* The document store: a container is the sequence of its documents *)

StoreError(code, message) ==
  [name |-> "ErrorResponse", code |-> code, message |-> message]

NotFound == StoreError(404, <<"Entity", "with", "the", "specified", "id",
                             "does", "not", "exist">>)

\* failures of the store other than not-found: throttling, an internal
\* error, and a rejected key whose message names the configuration variable
StoreFailures ==
  {StoreError(429, <<"Request", "rate", "is", "large">>),
   StoreError(500, <<"Internal", "server", "error">>),
   StoreError(401, <<"Unauthorized:", "the", "key", "in", "COSMOS_KEY",
                     "was", "rejected">>)}

HasId(c, id) == \E i \in 1..Len(c) : c[i].id = id
IndexOf(c, id) == CHOOSE i \in 1..Len(c) : c[i].id = id
Remove(c, id) == SelectSeq(c, LAMBDA doc : doc.id # id)

\* items.upsert: replace the document with this id, or add it
Upsert(c, doc) ==
  IF HasId(c, doc.id) THEN [c EXCEPT ![IndexOf(c, doc.id)] = doc]
  ELSE Append(c, doc)

\* item(id, id).read(): the document; for a missing one an empty response
\* or, depending on the client version, a 404 error; or a failure
ItemRead(c, id) ==
  (IF HasId(c, id) THEN {Return([resource |-> c[IndexOf(c, id)]])}
   ELSE {Return([resource |-> Undefined]), Throw(NotFound)})
  \cup {Throw(e) : e \in StoreFailures}

\* item(id, id).delete(): 404 for a missing document
ItemDelete(c, id) ==
  (IF HasId(c, id) THEN {Return([resource |-> Undefined])}
   ELSE {Throw(NotFound)})
  \cup {Throw(e) : e \in StoreFailures}

\* items.upsert(dto): the written document, an empty response, or a failure
ItemsUpsert(dto) ==
  {Return([resource |-> dto]), Return([resource |-> Undefined])}
  \cup {Throw(e) : e \in StoreFailures}

\* items.query(...).fetchAll(): the matching documents, or a failure
FetchAll(matching) ==
  {Return([resources |-> matching])} \cup {Throw(e) : e \in StoreFailures}

-----------------------------------------------------------------------------
(* CosmosDeviceLoanRepository *)

toDTO(loan) ==
  LET startDate == toISOString(loan.startDate)
      dueDate == toISOString(loan.dueDate)
      createdAt == toISOString(loan.createdAt)
  IN  IF startDate.kind = "throw" THEN startDate
      ELSE IF dueDate.kind = "throw" THEN dueDate
      ELSE IF createdAt.kind = "throw" THEN createdAt
      ELSE Return(
             [id |-> loan.id, deviceId |-> loan.deviceId,
              borrowerId |-> loan.borrowerId, loanAmount |-> loan.loanAmount,
              startDate |-> startDate.value, dueDate |-> dueDate.value,
              status |-> loan.status, createdAt |-> createdAt.value])

\* dto.name: undefined when the document has no such property
Property(dto, name) == IF name \in DOMAIN dto THEN dto[name] ELSE Undefined

\* new Date(value): a string is parsed, undefined gives an invalid Date
NewDate(value) ==
  IF value.t = "string" THEN ParseDate(value.v) ELSE InvalidDate

fromDTO(dto) ==
  [id |-> Property(dto, "id"), deviceId |-> Property(dto, "deviceId"),
   borrowerId |-> Property(dto, "borrowerId"),
   loanAmount |-> Property(dto, "loanAmount"),
   startDate |-> NewDate(Property(dto, "startDate")),
   dueDate |-> NewDate(Property(dto, "dueDate")),
   status |-> Property(dto, "status"),
   createdAt |-> NewDate(Property(dto, "createdAt"))]

MapFromDTO(resources) == [i \in 1..Len(resources) |-> fromDTO(resources[i])]

\* each method maps the store's completion r of its one store call

findById(r) ==
  IF r.kind = "return"
  THEN Return(IF r.value.resource # Undefined
              THEN fromDTO(r.value.resource) ELSE Undefined)
  ELSE IF r.error.code = 404 THEN Return(Undefined)
  ELSE r

QueryResult(r) ==
  IF r.kind = "return" THEN Return(MapFromDTO(r.value.resources)) ELSE r

findAll(r) == QueryResult(r)

save(r) ==
  IF r.kind = "throw" THEN r
  ELSE IF r.value.resource = Undefined
    THEN Throw([name |-> "Error",
                message |-> <<"Failed", "to", "save", "DeviceLoan">>])
  ELSE Return(fromDTO(r.value.resource))

delete(r) ==
  IF r.kind = "return" THEN Return(TRUE)
  ELSE IF r.error.code = 404 THEN Return(FALSE)
  ELSE r

exists(r) ==
  LET found == findById(r)
  IN  IF found.kind = "throw" THEN found
      ELSE Return(found.value # Undefined)

findActive(r) == QueryResult(r)

\* SELECT * FROM c WHERE c.status = "active"
ActiveQuery(c) == SelectSeq(c, LAMBDA doc : doc.status = Str("active"))

\* SELECT * FROM c WHERE c.status = "active" AND c.dueDate < @currentDate
OverdueQuery(c, isoDate) ==
  SelectSeq(c, LAMBDA doc :
    doc.status = Str("active") /\ StringLess(doc.dueDate.v, isoDate.v))

findOverdue(r) == QueryResult(r)

\* SELECT * FROM c WHERE c.borrowerId = @borrowerId
BorrowerQuery(c, borrowerId) ==
  SelectSeq(c, LAMBDA doc : doc.borrowerId = borrowerId)

findByBorrowerId(r) == QueryResult(r)

\* SELECT * FROM c WHERE c.deviceId = @deviceId
DeviceQuery(c, deviceId) ==
  SelectSeq(c, LAMBDA doc : doc.deviceId = deviceId)

findByDeviceId(r) == QueryResult(r)

-----------------------------------------------------------------------------
(* CosmosDeviceAddRepository *)

deviceToDTO(device) ==
  LET createdAt == toISOString(device.createdAt)
  IN  IF createdAt.kind = "throw" THEN createdAt
      ELSE Return([device EXCEPT !.createdAt = createdAt.value])

deviceFromDTO(resource) ==
  [id |-> Property(resource, "id"), name |-> Property(resource, "name"),
   category |-> Property(resource, "category"),
   condition |-> Property(resource, "condition"),
   available |-> Property(resource, "available"),
   createdAt |-> NewDate(Property(resource, "createdAt"))]

\* destructuring an absent resource throws
deviceSave(r) ==
  IF r.kind = "throw" THEN r
  ELSE IF r.value.resource = Undefined THEN Throw(TypeError)
  ELSE Return(deviceFromDTO(r.value.resource))

deviceFindAll(r) ==
  IF r.kind = "return"
  THEN Return([i \in 1..Len(r.value.resources) |->
                 deviceFromDTO(r.value.resources[i])])
  ELSE r

\* the catch without a binding returns undefined for every error
deviceFindById(r) ==
  IF r.kind = "return"
  THEN Return(IF r.value.resource # Undefined
              THEN deviceFromDTO(r.value.resource) ELSE Undefined)
  ELSE Return(Undefined)

\* the seed data; createdAt is the time of the seeding run
SeedDay == 20393

testProducts ==
  <<[id |-> Str(<<"p1">>), name |-> "Lenovo ThinkPad X1 Carbon",
     category |-> "Laptops", condition |-> "good", available |-> TRUE,
     createdAt |-> Date(SeedDay, 0)],
    [id |-> Str(<<"p2">>), name |-> "Dell Latitude 7420",
     category |-> "Laptops", condition |-> "fair", available |-> TRUE,
     createdAt |-> Date(SeedDay, 0)],
    [id |-> Str(<<"p3">>), name |-> "Samsung Galaxy Tab S8",
     category |-> "Tablets", condition |-> "excellent", available |-> FALSE,
     createdAt |-> Date(SeedDay, 0)]>>

-----------------------------------------------------------------------------
(* AppServices: the singleton accessor, in its two variants *)

ConfigNames ==
  {"COSMOS_KEY", "COSMOS_ENDPOINT", "COSMOS_DATABASE", "COSMOS_CONTAINER"}
EnvNames == ConfigNames \cup {"NODE_ENV"}

Error(message) == [name |-> "Error", message |-> message]

MissingConfigurationMessage ==
  <<"Missing", "Cosmos", "configuration.", "Please", "ensure", "all", "of",
    "the", "following", "environment", "variables", "are", "set:",
    "COSMOS_KEY", "COSMOS_ENDPOINT", "COSMOS_DATABASE", "COSMOS_CONTAINER">>

KeyNotSetMessage ==
  <<"COSMOS_KEY", "environment", "variable", "is", "not", "set.">>

getProductRepo_NoValidation(instance, e) ==
  IF instance # Null
  THEN [completion |-> Return(instance), instance |-> instance,
        constructed |-> FALSE]
  ELSE
    LET created ==
          [repository |-> "CosmosDeviceAddRepository",
           options |-> [endpoint |-> e["COSMOS_ENDPOINT"],
                        key |-> e["COSMOS_KEY"],
                        databaseId |-> e["COSMOS_DATABASE"],
                        containerId |-> e["COSMOS_CONTAINER"]]]
    IN  [completion |-> Return(created), instance |-> created,
         constructed |-> TRUE]

getProductRepo_NoCache(instance, e) ==
  IF \/ Falsy(e["COSMOS_KEY"]) \/ Falsy(e["COSMOS_ENDPOINT"])
     \/ Falsy(e["COSMOS_DATABASE"]) \/ Falsy(e["COSMOS_CONTAINER"])
  THEN [completion |-> Throw(Error(MissingConfigurationMessage)),
        instance |-> instance, constructed |-> FALSE]
  ELSE
    LET created ==
          [repository |-> "CosmosDeviceAddRepository",
           options |-> [endpoint |-> e["COSMOS_ENDPOINT"],
                        key |-> e["COSMOS_KEY"],
                        databaseId |-> e["COSMOS_DATABASE"],
                        containerId |-> e["COSMOS_CONTAINER"]]]
    IN  [completion |-> Return(created), instance |-> created,
         constructed |-> TRUE]

\* the completion of a call, the singleton cache after it, and whether the
\* call ran the constructor
getProductRepo(instance, e) ==
  IF instance # Null
  THEN [completion |-> Return(instance), instance |-> instance,
        constructed |-> FALSE]
  ELSE IF \/ Falsy(e["COSMOS_KEY"]) \/ Falsy(e["COSMOS_ENDPOINT"])
          \/ Falsy(e["COSMOS_DATABASE"]) \/ Falsy(e["COSMOS_CONTAINER"])
  THEN [completion |-> Throw(Error(MissingConfigurationMessage)),
        instance |-> instance, constructed |-> FALSE]
  ELSE
    LET created ==
          [repository |-> "CosmosDeviceAddRepository",
           options |-> [endpoint |-> e["COSMOS_ENDPOINT"],
                        key |-> e["COSMOS_KEY"],
                        databaseId |-> e["COSMOS_DATABASE"],
                        containerId |-> e["COSMOS_CONTAINER"]]]
    IN  [completion |-> Return(created), instance |-> created,
         constructed |-> TRUE]

\* the earlier variant: only the key is read from the environment
getProductRepoEarlier(instance, e) ==
  IF instance # Null
  THEN [completion |-> Return(instance), instance |-> instance,
        constructed |-> FALSE]
  ELSE IF Falsy(e["COSMOS_KEY"])
  THEN [completion |-> Throw(Error(KeyNotSetMessage)), instance |-> instance,
        constructed |-> FALSE]
  ELSE
    LET created ==
          [repository |-> "CosmosDeviceLoanRepository",
           options |->
             [endpoint |->
                Str(<<"https://capmus-dev-cr07-cosmos.documents.azure.com:443/">>),
              key |-> e["COSMOS_KEY"],
              databaseId |-> Str(<<"catalogue-db">>),
              containerId |-> Str(<<"products">>)]]
    IN  [completion |-> Return(created), instance |-> created,
         constructed |-> TRUE]

-----------------------------------------------------------------------------
(* The use case and the GET /products handler *)

\* listProducts: productRepo.findAll(), of whichever repository was injected
listProducts(productRepo, r) ==
  IF productRepo.repository = "CosmosDeviceAddRepository"
  THEN deviceFindAll(r)
  ELSE findAll(r)

\* err.message?.includes(token), a message being a sequence of words
MessageIncludes(err, token) ==
  /\ "message" \in DOMAIN err
  /\ \E i \in 1..Len(err.message) : err.message[i] = token

Ok(products) ==
  [status |-> 200,
   jsonBody |-> [success |-> TRUE, count |-> Len(products),
                 data |-> products]]

MissingConfig ==
  [status |-> 400,
   jsonBody |->
     [success |-> FALSE,
      error |-> [code |-> "MissingConfig",
                 message |->
                   "CosmosDB configuration (COSMOS_KEY) is missing or invalid."]]]

InternalServerError(details) ==
  [status |-> 500,
   jsonBody |->
     [success |-> FALSE,
      error |-> [code |-> "InternalServerError",
                 message |->
                   "An unexpected error occurred while fetching products.",
                 details |-> details]]]

\* the catch block of the handler
HandlerCatch(err, e) ==
  IF MessageIncludes(err, "COSMOS_KEY") THEN MissingConfig
  ELSE InternalServerError(
         IF e["NODE_ENV"] = Str(<<"development">>)
         THEN Property(err, "message") ELSE Undefined)

-----------------------------------------------------------------------------
(* Input ranges *)

MaxDay == 1

\* strings with and without surrounding or only white space
StringSamples == {<<>>, <<" ", "\t">>, <<"a">>, <<" ", "a", " ">>}

\* whole and half amounts around both ends of the range, and NaN
AmountSamples ==
  {Num(w, h) : w \in {-1, MIN_LOAN_AMOUNT - 1, MIN_LOAN_AMOUNT,
                      MAX_LOAN_AMOUNT, MAX_LOAN_AMOUNT + 1},
               h \in {0, 1}} \cup {NaN}

\* midnight and one second past midnight of each day, and the invalid Date
DateSamples ==
  {Date(d, ms) : d \in 0..MaxDay, ms \in {0, 1000}} \cup {InvalidDate}

StatusSamples == {"active", "returned", "overdue", "lost", "Active", ""}

CreateParams ==
  [id : {Str(s) : s \in StringSamples},
   deviceId : {Str(s) : s \in StringSamples},
   borrowerId : {Str(s) : s \in StringSamples},
   loanAmount : AmountSamples,
   startDate : DateSamples,
   dueDate : DateSamples,
   status : {Str(s) : s \in StatusSamples},
   createdAt : {Date(0, 0), InvalidDate}]

-----------------------------------------------------------------------------
(* DeviceLoan.create and calculateLoanDurationDays applied to the inputs *)

NoCall == [op |-> "none", arg |-> Undefined]

\* nothing stored, nothing configured, no request in progress
StoreEmpty ==
  /\ container = <<>>
  /\ stored = <<>>
  /\ devices = <<>>

AppIdle ==
  /\ env = [n \in EnvNames |-> Undefined]
  /\ wiring = "complete"
  /\ deviceRepoInstance = Null
  /\ requests = <<>>

InitCreate ==
  /\ call = NoCall
  /\ outcome = Return(Undefined)
  /\ loans = <<>>
  /\ StoreEmpty
  /\ AppIdle

Create ==
  /\ call.op = "none"
  /\ \E p \in CreateParams :
       /\ call' = [op |-> "create", arg |-> p]
       /\ outcome' = createDeviceLoan(p)
  /\ UNCHANGED <<domainVars, storeVars, appVars>>

\* the duration of a loan that create returned
Duration ==
  /\ call.op = "create"
  /\ outcome.kind = "return"
  /\ call' = [op |-> "calculateLoanDurationDays", arg |-> outcome.value]
  /\ outcome' = Return(calculateLoanDurationDays(outcome.value))
  /\ UNCHANGED <<domainVars, storeVars, appVars>>

NextCreate ==
  \/ Create
  \/ Duration

SpecCreate == InitCreate /\ [][NextCreate]_vars

-----------------------------------------------------------------------------
(* DeviceLoan.validate and DeviceLoan.create applied to values of any type, *)
(* as a caller outside the type checker can pass them                       *)

\* a missing property, null, a number, strings, Dates
AnyId == {Undefined, Null, Num(5, 0), Str(<<>>), Str(<<"a">>)}
AnyAmount ==
  {Undefined, Null, Str(<<"5">>), Str(<<"a">>), Num(5, 0), Num(0, 0), NaN}
AnyDate(day) == {Undefined, Str(<<"a">>), Date(day, 0), InvalidDate}
AnyStatus == {Undefined, Num(5, 0), Str("active"), Str("lost")}

AnyContent ==
  [deviceId : AnyId, borrowerId : AnyId, loanAmount : AnyAmount,
   startDate : AnyDate(0), dueDate : AnyDate(1)]

AnyParams ==
  [id : {Undefined, Num(5, 0), Str(<<"a">>)},
   deviceId : AnyId, borrowerId : AnyId, loanAmount : AnyAmount,
   startDate : AnyDate(0), dueDate : AnyDate(1),
   status : AnyStatus, createdAt : AnyDate(0)]

Validate ==
  /\ call.op = "none"
  /\ \E content \in AnyContent :
       /\ call' = [op |-> "validate", arg |-> content]
       /\ outcome' = validateDeviceLoanContent(content)
  /\ UNCHANGED <<domainVars, storeVars, appVars>>

CreateAny ==
  /\ call.op = "none"
  /\ \E p \in AnyParams :
       /\ call' = [op |-> "create", arg |-> p]
       /\ outcome' = createDeviceLoan(p)
  /\ UNCHANGED <<domainVars, storeVars, appVars>>

NextValidate ==
  \/ Validate
  \/ CreateAny

SpecValidate == InitCreate /\ [][NextValidate]_vars

-----------------------------------------------------------------------------
(* The query helpers applied to sequences of loans that create returned *)

MaxLoans == 3

LoanIds == <<"L1", "L2", "L3", "L4", "L5">>

\* a loan in position i: start and due days with equal and distinct values
LoanAt(i, status, startDay, dueDay) ==
  [id |-> Str(<<LoanIds[i]>>), deviceId |-> Str(<<"d">>),
   borrowerId |-> Str(<<"b">>), loanAmount |-> Num(MIN_LOAN_AMOUNT, 0),
   startDate |-> Date(startDay, 0), dueDate |-> Date(dueDay, 0),
   status |-> Str(status), createdAt |-> Date(0, 0)]

QueryLoans(i) ==
  {l \in {LoanAt(i, st, sd, dd) :
             st \in {"active", "returned"}, sd \in 0..2, dd \in 1..3} :
     createDeviceLoan(l).kind = "return"}

LoanSeqs(n) ==
  UNION {{ls \in [1..k -> UNION {QueryLoans(i) : i \in 1..k}] :
            \A i \in 1..k : ls[i] \in QueryLoans(i)} : k \in 0..n}

ReferenceDates == {Date(d, ms) : d \in 1..2, ms \in {0, 1000}}

InitQuery ==
  /\ call = NoCall
  /\ outcome = Return(Undefined)
  /\ loans \in LoanSeqs(MaxLoans)
  /\ StoreEmpty
  /\ AppIdle

Helper(op, arg, result) ==
  /\ call.op = "none"
  /\ call' = [op |-> op, arg |-> arg]
  /\ outcome' = Return(result)
  /\ UNCHANGED <<domainVars, storeVars, appVars>>

GetActiveLoans ==
  Helper("getActiveLoans", [loans |-> loans], getActiveLoans(loans))

GetOverdueLoans ==
  \E T \in ReferenceDates :
    Helper("getOverdueLoans", [loans |-> loans, currentDate |-> T],
           getOverdueLoans(loans, T))

SortByDueDate ==
  \E order \in {"asc", "desc"} :
    Helper("sortByDueDate", [loans |-> loans, order |-> order],
           sortByDueDate(loans, order))

SortByStartDate ==
  \E order \in {"asc", "desc"} :
    Helper("sortByStartDate", [loans |-> loans, order |-> order],
           sortByStartDate(loans, order))

NextQuery ==
  \/ GetActiveLoans
  \/ GetOverdueLoans
  \/ SortByDueDate
  \/ SortByStartDate

SpecQuery == InitQuery /\ [][NextQuery]_vars

-----------------------------------------------------------------------------
(* The loan repository over a store, with the loans an application holds *)

MaxDocs == 2

\* 2025-11-01 and 10000-01-01, the first day whose year has five digits
DueSoon == Date(SeedDay, 0)
DueFar == Date(2932897, 0)

RepoIds == {Str(<<"L1">>), Str(<<"L2">>)}

RepoLoans ==
  {l \in [id : RepoIds, deviceId : {Str(<<"d">>)}, borrowerId : {Str(<<"b">>)},
          loanAmount : {Num(MAX_LOAN_AMOUNT, 0)},
          startDate : {Date(SeedDay - 1, 0)}, dueDate : {DueSoon, DueFar},
          status : {Str("active"), Str("returned")},
          createdAt : {Date(SeedDay - 1, 0)}] :
     createDeviceLoan(l).kind = "return"}

RepoLoanSeqs(n) == UNION {[1..k -> RepoLoans] : k \in 0..n}

\* the due day itself and the day after
RepoReferenceDates == {DueSoon, Date(SeedDay + 1, 0)}

DeviceIds == {Str(<<"p1">>), Str(<<"p4">>)}

SeededDevices ==
  [i \in 1..Len(testProducts) |-> deviceToDTO(testProducts[i]).value]

InitRepo ==
  /\ call = NoCall
  /\ outcome = Return(Undefined)
  /\ loans \in RepoLoanSeqs(MaxDocs)
  /\ container = <<>>
  /\ stored = <<>>
  /\ devices = SubSeq(SeededDevices, 1, 1)
  /\ AppIdle

\* a read-only method: the store's completion r, the method's completion
Signal(r) == IF r.kind = "throw" THEN r ELSE [kind |-> "return"]

Method(op, arg, r, result) ==
  /\ call' = [op |-> op, arg |-> arg @@ [store |-> Signal(r)]]
  /\ outcome' = result
  /\ UNCHANGED <<domainVars, storeVars, appVars>>

Save ==
  /\ call.op = "none"
  /\ \E i \in 1..Len(loans) :
       LET dto == toDTO(loans[i])
       IN  IF dto.kind = "throw"
           THEN Method("save", [loan |-> loans[i]], dto, dto)
           ELSE \E r \in ItemsUpsert(dto.value) :
                  /\ call' = [op |-> "save",
                              arg |-> [loan |-> loans[i],
                                       store |-> Signal(r)]]
                  /\ outcome' = save(r)
                  /\ container' = IF r.kind = "return"
                                  THEN Upsert(container, dto.value)
                                  ELSE container
                  /\ stored' = IF r.kind = "return"
                               THEN Upsert(stored, loans[i])
                               ELSE stored
                  /\ UNCHANGED <<domainVars, devices, appVars>>

FindById ==
  /\ call.op = "none"
  /\ \E id \in RepoIds : \E r \in ItemRead(container, id) :
       Method("findById", [id |-> id], r, findById(r))

FindAll ==
  /\ call.op = "none"
  /\ \E r \in FetchAll(container) :
       Method("findAll", <<>>, r, findAll(r))

Delete ==
  /\ call.op = "none"
  /\ \E id \in RepoIds : \E r \in ItemDelete(container, id) :
       /\ call' = [op |-> "delete",
                   arg |-> [id |-> id, store |-> Signal(r)]]
       /\ outcome' = delete(r)
       /\ container' = IF r.kind = "return" THEN Remove(container, id)
                       ELSE container
       /\ stored' = IF r.kind = "return" THEN Remove(stored, id) ELSE stored
       /\ UNCHANGED <<domainVars, devices, appVars>>

Exists ==
  /\ call.op = "none"
  /\ \E id \in RepoIds : \E r \in ItemRead(container, id) :
       Method("exists", [id |-> id], r, exists(r))

FindActive ==
  /\ call.op = "none"
  /\ \E r \in FetchAll(ActiveQuery(container)) :
       Method("findActive", <<>>, r, findActive(r))

FindOverdue ==
  /\ call.op = "none"
  /\ \E T \in RepoReferenceDates :
       LET isoDate == toISOString(T)
       IN  IF isoDate.kind = "throw"
           THEN Method("findOverdue", [currentDate |-> T], isoDate, isoDate)
           ELSE \E r \in FetchAll(OverdueQuery(container, isoDate.value)) :
                  Method("findOverdue", [currentDate |-> T], r,
                         findOverdue(r))

FindByBorrowerId ==
  /\ call.op = "none"
  /\ \E b \in {Str(<<"b">>), Str(<<"c">>)} :
       \E r \in FetchAll(BorrowerQuery(container, b)) :
         Method("findByBorrowerId", [borrowerId |-> b], r,
                findByBorrowerId(r))

FindByDeviceId ==
  /\ call.op = "none"
  /\ \E d \in {Str(<<"d">>), Str(<<"e">>)} :
       \E r \in FetchAll(DeviceQuery(container, d)) :
         Method("findByDeviceId", [deviceId |-> d], r, findByDeviceId(r))

DeviceFindById ==
  /\ call.op = "none"
  /\ \E id \in DeviceIds : \E r \in ItemRead(devices, id) :
       Method("deviceFindById", [id |-> id], r, deviceFindById(r))

\* getOverdueLoans on the loans the application holds
GetOverdueLoansHeld ==
  \E T \in RepoReferenceDates :
    Helper("getOverdueLoans", [loans |-> loans, currentDate |-> T],
           getOverdueLoans(loans, T))

\* the caller has the result; the next call can be made
Resume ==
  /\ call.op # "none"
  /\ call' = NoCall
  /\ outcome' = Return(Undefined)
  /\ UNCHANGED <<domainVars, storeVars, appVars>>

NextRepo ==
  \/ Save
  \/ FindById
  \/ FindAll
  \/ Delete
  \/ Exists
  \/ FindActive
  \/ FindOverdue
  \/ FindByBorrowerId
  \/ FindByDeviceId
  \/ DeviceFindById
  \/ GetOverdueLoansHeld
  \/ Resume

SpecRepo == InitRepo /\ [][NextRepo]_vars

-----------------------------------------------------------------------------
(* The function app: requests dispatched concurrently, each running to its *)
(* await of the store read and then to its response; the seed script       *)

MaxRequests == 2

SetValue == Str(<<"v">>)

\* process.env as the host starts the process with it
Environments ==
  {e \in [EnvNames -> {Undefined, Str(<<>>), SetValue, Str(<<"development">>)}] :
     /\ e["COSMOS_KEY"] \in {Undefined, Str(<<>>), SetValue}
     /\ \A n \in ConfigNames \ {"COSMOS_KEY"} : e[n] \in {Undefined, SetValue}
     /\ e["NODE_ENV"] \in {Undefined, Str(<<"development">>)}}

Init ==
  /\ call = NoCall
  /\ outcome = Return(Undefined)
  /\ loans = <<>>
  /\ StoreEmpty
  /\ env \in Environments
  /\ wiring \in {"complete", "earlier"}
  /\ deviceRepoInstance = Null
  /\ requests = <<>>

Accessor ==
  IF wiring = "complete" THEN getProductRepo(deviceRepoInstance, env)
  ELSE getProductRepoEarlier(deviceRepoInstance, env)

\* a request arrives: the handler runs up to the await of listProducts, or
\* to its response when getProductRepo throws
Begin ==
  /\ Len(requests) < MaxRequests
  /\ LET g == Accessor
     IN  /\ deviceRepoInstance' = g.instance
         /\ requests' = Append(requests,
              IF g.completion.kind = "throw"
              THEN [pc |-> "done", productRepo |-> Null, storeCalls |-> 0,
                    failure |-> g.completion,
                    response |-> HandlerCatch(g.completion.error, env)]
              ELSE [pc |-> "await", productRepo |-> g.completion.value,
                    storeCalls |-> 1, failure |-> Return(Undefined),
                    response |-> Undefined])
  /\ UNCHANGED <<call, outcome, domainVars, storeVars, env, wiring>>

\* the store read of a waiting request completes and the handler responds
Respond ==
  /\ \E i \in 1..Len(requests) :
       /\ requests[i].pc = "await"
       /\ \E r \in FetchAll(devices) :
            LET products == listProducts(requests[i].productRepo, r)
            IN  requests' = [requests EXCEPT ![i] =
                  [@ EXCEPT
                     !.pc = "done",
                     !.failure = IF products.kind = "throw" THEN products
                                 ELSE @,
                     !.response =
                       IF products.kind = "return" THEN Ok(products.value)
                       ELSE HandlerCatch(products.error, env)]]
  /\ UNCHANGED <<call, outcome, domainVars, storeVars, env, wiring,
                 deviceRepoInstance>>

\* runSeed, in a process of its own and so with a cache of its own: the
\* next product is written.  A failed write ends the run and changes
\* nothing; with the earlier accessor the loan mapping of a product throws
\* before any write.
Seed ==
  /\ wiring = "complete"
  /\ getProductRepo(Null, env).completion.kind = "return"
  /\ Len(devices) < Len(testProducts)
  /\ LET dto == deviceToDTO(testProducts[Len(devices) + 1])
     IN  /\ dto.kind = "return"
         /\ \E r \in ItemsUpsert(dto.value) :
              /\ r.kind = "return"
              /\ devices' = Upsert(devices, dto.value)
  /\ UNCHANGED <<call, outcome, domainVars, container, stored, appVars>>

Next ==
  \/ Begin
  \/ Respond
  \/ Seed

Spec == Init /\ [][Next]_vars

-----------------------------------------------------------------------------
(* The singleton accessor called by requests in any order, each call        *)
(* running to completion, while process.env is assigned between the calls   *)

MaxCalls == 3

\* values process.env can hold for a configuration variable
EnvValues(n) ==
  IF n = "COSMOS_KEY" THEN {Undefined, Str(<<>>), SetValue, Str(<<"w">>)}
  ELSE {Undefined, SetValue}

InitSingleton ==
  /\ call = NoCall
  /\ outcome = Return(Undefined)
  /\ loans = <<>>
  /\ StoreEmpty
  /\ env = [n \in EnvNames |-> Undefined]
  /\ wiring \in {"complete", "earlier"}
  /\ deviceRepoInstance = Null
  /\ requests = <<>>

\* process.env[n] = v, or delete process.env[n]
SetEnv ==
  /\ \E n \in ConfigNames : \E v \in EnvValues(n) :
       /\ v # env[n]
       /\ env' = [env EXCEPT ![n] = v]
  /\ UNCHANGED <<call, outcome, domainVars, storeVars, wiring,
                 deviceRepoInstance, requests>>

\* every variable the linked accessor requires is set in e
RequiredIn(e) ==
  IF wiring = "complete"
  THEN \A n \in ConfigNames : e[n] \notin {Undefined, Str(<<>>)}
  ELSE e["COSMOS_KEY"] \notin {Undefined, Str(<<>>)}

\* a request calls getProductRepo; the call is recorded with whether it
\* found the required variables set, its completion, whether it ran the
\* constructor and the cache it left
GetProductRepo ==
  /\ Len(requests) < MaxCalls
  /\ LET g == Accessor
     IN  /\ deviceRepoInstance' = g.instance
         /\ requests' = Append(requests,
              [configured |-> RequiredIn(env), completion |-> g.completion,
               constructed |-> g.constructed, cache |-> g.instance])
  /\ UNCHANGED <<call, outcome, domainVars, storeVars, env, wiring>>

NextSingleton ==
  \/ SetEnv
  \/ GetProductRepo

SpecSingleton == InitSingleton /\ [][NextSingleton]_vars

-----------------------------------------------------------------------------
(* Properties of DeviceLoan.create and calculateLoanDurationDays *)

NonBlank(s) == \E i \in 1..Len(s) : ~IsWhiteSpace(s[i])
Halves(n) == 2 * n.w + n.h
After(d, s) ==
  (d.day - s.day) * 86400000 + (d.ms - s.ms) > 0
Count(seq, m) == Cardinality({i \in 1..Len(seq) : seq[i] = m})

ViolatedMessages(p) ==
  {m \in {MsgId, MsgCreatedAt, MsgStatus, MsgDeviceId, MsgBorrowerId,
          MsgLoanAmount, MsgDates} :
     \/ m = MsgId /\ ~NonBlank(p.id.v)
     \/ m = MsgCreatedAt /\ ~p.createdAt.valid
     \/ m = MsgStatus /\ p.status.v \notin {"active", "returned", "overdue"}
     \/ m = MsgDeviceId /\ ~NonBlank(p.deviceId.v)
     \/ m = MsgBorrowerId /\ ~NonBlank(p.borrowerId.v)
     \/ m = MsgLoanAmount
          /\ (p.loanAmount.nan \/ Halves(p.loanAmount) < 2
               \/ Halves(p.loanAmount) > 20000)
     \/ m = MsgDates
          /\ ~(p.startDate.valid /\ p.dueDate.valid
                /\ After(p.dueDate, p.startDate))}

FailsWith(m) ==
  /\ outcome.kind = "throw"
  /\ outcome.error.name = "InvalidDeviceLoanError"
  /\ \E i \in 1..Len(outcome.error.errors) : outcome.error.errors[i] = m

\* C1: create returns a record equal to its inputs when no rule is violated,
\* and otherwise throws InvalidDeviceLoanError whose errors hold exactly one
\* message per violated rule and no other message.
C1_CreateAllOrNothing ==
  call.op = "create" =>
    LET p == call.arg
        V == ViolatedMessages(p)
    IN  IF V = {}
        THEN /\ outcome.kind = "return"
             /\ outcome.value =
                  [id |-> p.id, deviceId |-> p.deviceId,
                   borrowerId |-> p.borrowerId, loanAmount |-> p.loanAmount,
                   startDate |-> p.startDate, dueDate |-> p.dueDate,
                   status |-> p.status, createdAt |-> p.createdAt]
        ELSE /\ outcome.kind = "throw"
             /\ outcome.error.name = "InvalidDeviceLoanError"
             /\ Len(outcome.error.errors) = Cardinality(V)
             /\ \A m \in V : Count(outcome.error.errors, m) = 1

\* all seven rules violated at once, seven messages reported
C1_Witness ==
  /\ call.op = "create"
  /\ outcome.kind = "throw"
  /\ Len(outcome.error.errors) = 7

\* C2: a loanAmount below 1 or above 10000 makes create fail with the
\* amount-range message whatever the other fields are; for an amount from 1
\* to 10000, both ends included, that message is absent.
C2_AmountRange ==
  call.op = "create" =>
    LET a == call.arg.loanAmount
    IN  /\ (~a.nan /\ (Halves(a) < 2 \/ Halves(a) > 20000))
             => FailsWith("Loan amount must be between 1 and 10000")
        /\ (~a.nan /\ Halves(a) >= 2 /\ Halves(a) <= 20000)
             => ~FailsWith("Loan amount must be between 1 and 10000")

\* 10000.5 with every other field valid: the amount message alone
C2_Witness ==
  /\ call.op = "create"
  /\ call.arg.loanAmount = Num(10000, 1)
  /\ outcome.kind = "throw"
  /\ outcome.error.errors = <<MsgLoanAmount>>

\* C3: with both dates valid, create fails with the date-ordering message
\* when dueDate <= startDate (equal dates included), and the message is
\* absent when dueDate is strictly after startDate.
C3_DateOrdering ==
  call.op = "create" =>
    LET s == call.arg.startDate
        d == call.arg.dueDate
    IN  (s.valid /\ d.valid) =>
          (FailsWith(MsgDates) <=> ~After(d, s))

\* equal valid dates and every other field valid: the date message alone
C3_Witness ==
  /\ call.op = "create"
  /\ call.arg.startDate.valid
  /\ call.arg.startDate = call.arg.dueDate
  /\ outcome.kind = "throw"
  /\ outcome.error.errors = <<MsgDates>>

\* C4: create fails with the status message for every status other than
\* active, returned and overdue, accepts each of these three, and
\* isValidStatus accepts exactly these three.
C4_StatusSet ==
  /\ \A s \in StatusSamples :
       isValidStatus(Str(s)) <=> s \in {"active", "returned", "overdue"}
  /\ call.op = "create" =>
       (FailsWith(MsgStatus)
          <=> call.arg.status.v \notin {"active", "returned", "overdue"})

\* a status differing only in letter case, every other field valid
C4_Witness ==
  /\ call.op = "create"
  /\ call.arg.status = Str("Active")
  /\ outcome.kind = "throw"
  /\ outcome.error.errors = <<MsgStatus>>

\* C7: the duration is the ceiling of the millisecond span over 86,400,000:
\* exactly 24h gives 1, 24h and one second gives 2, and a loan that create
\* returned has a duration of at least 1.
C7_DurationCeiling ==
  call.op = "calculateLoanDurationDays" =>
    LET span == (call.arg.dueDate.day - call.arg.startDate.day) * 86400000
                  + (call.arg.dueDate.ms - call.arg.startDate.ms)
        n == outcome.value
    IN  /\ outcome.kind = "return"
        /\ ~n.nan /\ n.h = 0
        /\ (n.w - 1) * 86400000 < span /\ span <= n.w * 86400000
        /\ n.w >= 1
        /\ span = 86400000 => n.w = 1
        /\ span = 86401000 => n.w = 2

\* a loan of 24h and one second, counted as two days
C7_Witness ==
  /\ call.op = "calculateLoanDurationDays"
  /\ call.arg.startDate = Date(0, 0)
  /\ call.arg.dueDate = Date(1, 1000)
  /\ outcome.value = Num(2, 0)

-----------------------------------------------------------------------------
(* Properties of the sorts *)

Distinct(ls, field) ==
  \A i, j \in 1..Len(ls) : i # j => ls[i][field] # ls[j][field]

\* the loans of ls whose date field equals d, in the order of ls
WithDate(ls, field, d) == SelectSeq(ls, LAMBDA loan : loan[field] = d)

SortClaim(op, field, asc(_)) ==
  call.op = op =>
    LET ls == call.arg.loans
        out == outcome.value
    IN  /\ (call.arg.order = "desc" /\ Distinct(ls, field))
             => out = Reverse(asc(ls))
        /\ \A i \in 1..Len(ls) :
             WithDate(out, field, ls[i][field])
               = WithDate(ls, field, ls[i][field])

SortByDueDateAsc(ls) == sortByDueDate(ls, "asc")
SortByStartDateAsc(ls) == sortByStartDate(ls, "asc")

\* C6: on loans with pairwise distinct due dates the descending sort is the
\* reverse of the ascending sort, and in either direction loans with equal
\* due dates keep their original relative order; likewise sortByStartDate
\* on start dates.
C6_SortReverseAndStable ==
  /\ SortClaim("sortByDueDate", "dueDate", SortByDueDateAsc)
  /\ SortClaim("sortByStartDate", "startDate", SortByStartDateAsc)

\* a descending sort of three loans, two of them due the same day, that
\* moved the later loan to the front and kept the tied pair in order
C6_Witness ==
  /\ call.op = "sortByDueDate"
  /\ call.arg.order = "desc"
  /\ Len(call.arg.loans) = 3
  /\ call.arg.loans[1].dueDate = call.arg.loans[2].dueDate
  /\ outcome.value =
       <<call.arg.loans[3], call.arg.loans[1], call.arg.loans[2]>>

-----------------------------------------------------------------------------
(* Properties of the repositories *)

Before(a, b) == a.day < b.day \/ (a.day = b.day /\ a.ms < b.ms)

OverdueAt(ls, T) ==
  SelectSeq(ls, LAMBDA l : l.status.v = "active" /\ Before(l.dueDate, T))

\* C5: getOverdueLoans(loans, T), and findOverdue(T) over the stored loans,
\* return exactly the loans with status active and dueDate < T, in their
\* original order; a loan due exactly at T is not returned.
C5_OverdueExactly ==
  /\ call.op = "getOverdueLoans"
       => outcome.value = OverdueAt(call.arg.loans, call.arg.currentDate)
  /\ (call.op = "findOverdue" /\ outcome.kind = "return")
       => outcome.value = OverdueAt(stored, call.arg.currentDate)

\* C10: on findById, delete and exists only the store's not-found signal
\* becomes an absent result; every other store error is thrown to the
\* caller unchanged.
C10_OnlyNotFoundIsAbsent ==
  (call.op \in {"findById", "delete", "exists", "deviceFindById"}
     /\ call.arg.store.kind = "throw")
    => IF call.arg.store.error.code = 404
       THEN outcome.kind = "return"
            /\ outcome.value
                 = (IF call.op \in {"delete", "exists"} THEN FALSE
                    ELSE Undefined)
       ELSE outcome = Throw(call.arg.store.error)

-----------------------------------------------------------------------------
(* Properties of GET /products *)

RequiredSet ==
  IF wiring = "complete"
  THEN \A n \in ConfigNames : env[n] \notin {Undefined, Str(<<>>)}
  ELSE env["COSMOS_KEY"] \notin {Undefined, Str(<<>>)}

\* C8: with COSMOS_KEY unset the response is 400 with error code
\* MissingConfig and success false, and no store call was made; with the
\* required configuration set and a successful store read it is 200 with
\* success true and count equal to the length of data.
C8_MissingConfigOr200 ==
  \A i \in 1..Len(requests) :
    requests[i].pc = "done" =>
      LET rq == requests[i]
          body == rq.response.jsonBody
      IN  /\ env["COSMOS_KEY"] = Undefined =>
               /\ rq.response.status = 400
               /\ body.success = FALSE
               /\ body.error.code = "MissingConfig"
               /\ rq.storeCalls = 0
          /\ (RequiredSet /\ rq.failure.kind = "return") =>
               /\ rq.storeCalls = 1
               /\ rq.response.status = 200
               /\ body.success = TRUE
               /\ body.count = Len(body.data)

\* a 200 response listing two seeded products
C8_Witness ==
  \E i \in 1..Len(requests) :
    /\ requests[i].pc = "done"
    /\ requests[i].response.status = 200
    /\ requests[i].response.jsonBody.count = 2
    /\ Len(requests[i].response.jsonBody.data) = 2

\* C9: the 400 MissingConfig response is produced only when getProductRepo
\* failed for missing configuration; every error thrown by the store read
\* gives 500 with error code InternalServerError and success false.
C9_OnlyMissingConfigIs400 ==
  \A i \in 1..Len(requests) :
    (requests[i].pc = "done" /\ requests[i].failure.kind = "throw") =>
      LET rq == requests[i]
      IN  IF rq.storeCalls = 0
          THEN rq.response.status = 400
               /\ rq.response.jsonBody.error.code = "MissingConfig"
          ELSE /\ rq.response.status = 500
               /\ rq.response.jsonBody.success = FALSE
               /\ rq.response.jsonBody.error.code = "InternalServerError"

-----------------------------------------------------------------------------
(* Properties of the error policy *)

\* C11: DeviceLoan.validate never throws, whatever the types of the values
\* it is given, and returns a success or a failure result; the only error
\* DeviceLoan.create throws is InvalidDeviceLoanError with its messages.
C11_ValidateNeverThrows ==
  /\ call.op = "validate" =>
       /\ outcome.kind = "return"
       /\ outcome.value.success \in BOOLEAN
  /\ (call.op = "create" /\ outcome.kind = "throw") =>
       /\ outcome.error.name = "InvalidDeviceLoanError"
       /\ Len(outcome.error.errors) > 0

-----------------------------------------------------------------------------
(* Properties of the singleton accessor *)

Constructing == {i \in 1..Len(requests) : requests[i].constructed}

\* C12: over all the getProductRepo calls made so far, at most one ran the
\* constructor, and it ran with every required variable set; every call that
\* returned yields the instance that call constructed, which stays in the
\* cache; a call that threw constructed nothing and left the cache empty;
\* and a call made with the required variables set returns, whatever calls
\* threw before it.
C12_SingleInstance ==
  /\ Cardinality(Constructing) <= 1
  /\ \A i \in Constructing : requests[i].configured
  /\ \A i \in 1..Len(requests) :
       LET c == requests[i]
       IN  /\ c.completion.kind = "return" =>
                /\ \E j \in Constructing :
                     /\ j <= i
                     /\ c.completion.value = requests[j].completion.value
                /\ c.cache = c.completion.value
                /\ deviceRepoInstance = c.completion.value
           /\ c.completion.kind = "throw" =>
                /\ ~c.constructed
                /\ c.cache = Null
                /\ ~c.configured
           /\ c.configured => c.completion.kind = "return"

\* a call threw for missing configuration, a later call made after the
\* variables were set constructed the instance, and a third call, made after
\* the key was changed, returned the same instance
C12_Witness ==
  /\ Len(requests) = 3
  /\ requests[1].completion.kind = "throw"
  /\ requests[2].completion.kind = "return"
  /\ requests[2].constructed
  /\ requests[3].completion.kind = "return"
  /\ requests[3].completion.value = requests[2].completion.value
  /\ requests[3].completion.value.options.key # env["COSMOS_KEY"]

====
